---- MODULE Spec2Model ----
(***************************************************************************)
(* A model of backend/main.py: the Socket.IO search flow (run_search_flow, *)
(* handle_start_search, connect, disconnect), the sentiment summary        *)
(* (analyze_mention_summary) and the rolling topic corpus                  *)
(* (update_and_get_global_topics over global_word_corpus).                 *)
(*                                                                         *)
(* Strings that the code only compares are TLA+ strings.  A mention text   *)
(* is kept as the sequence of its maximal runs of word characters, which   *)
(* is what re.sub(r'\W+', ' ', ...) followed by split() leaves of it; the  *)
(* case of every word is kept, so lower() has work to do.                  *)
(***************************************************************************)
EXTENDS Integers, Sequences, FiniteSets, Bags, TLC

----------------------------------------------------------------------------
(* Bounds of the model. *)

\* runs started by start_search in one behaviour of Spec
MaxRuns == 2
\* runs in flight at the same time in Spec
MaxInFlight == 1
\* runs in flight at once in SpecConcurrent
MaxConcurrent == 2
\* runs started in one behaviour of FairSpec
MaxFairRuns == 1
\* length of the mention list in SpecSummary
MaxMentions == 8
\* calls of update_and_get_global_topics in SpecTopics
MaxCalls == 2
\* calls in SpecTopics that push a long text
MaxBulkCalls == 1
\* length of the running list in SpecActivity
MaxTimed == 5
\* items in the answer of an origin in SpecFetch
MaxItems == 3
\* the latest instant of an item, counted from the poller's start, in SpecPoller
MaxInstant == 2
\* length of the list in SpecLongSummary
MaxLong == 200
\* mentions labelled neither POSITIVE nor NEGATIVE in SpecLongSummary
MaxOther == 1

----------------------------------------------------------------------------
(* Program constants. *)

\* global_word_corpus = deque(maxlen=2000)
CorpusMaxLen == 2000
\* Counter(global_word_corpus).most_common(20)
TopN == 20
\* len(w) > 3
MinWordLen == 3
\* the bits of the fraction of a double
MantissaBits == 52
\* datetime.timedelta(days=1), in seconds
DaySeconds == 86400

----------------------------------------------------------------------------
(* Helpers over sequences and sets of numbers. *)

Range(s) == {s[i] : i \in 1..Len(s)}

\* TLC enumerates a set of numbers in increasing order: Min is linear.
Min(S) == CHOOSE x \in S : \A y \in S : x <= y

Max(S) == CHOOSE x \in S : \A y \in S : x >= y

\* The element of a one-element set: binds a value that is computed once.
Only(S) == CHOOSE x \in S : TRUE

RECURSIVE Flatten(_)
Flatten(ss) == IF ss = <<>> THEN <<>> ELSE Head(ss) \o Flatten(Tail(ss))

----------------------------------------------------------------------------
(* Strings: str.lower() on the words the model uses, and the stop words.   *)

\* str.lower(): the identity on a word without capitals.
Lower(w) ==
  CASE w = "Acme" -> "acme"
    [] w = "ACME" -> "acme"
    [] w = "Acme " -> "acme "
    [] w = "Launch" -> "launch"
    [] w = "Great" -> "great"
    [] w = "Rust" -> "rust"
    [] OTHER -> w

\* The words of nltk's English stop word list that occur in the model's texts.
stop_words == {"is", "the", "this", "with", "that"}

----------------------------------------------------------------------------
(* analyze_mention_summary                                                 *)

\* Python 3 round() of a double that is exactly num/den (den > 0, num >= 0):
\* to the nearest integer, a tie to the even one.
PyRound(num, den) ==
  LET q == num \div den
      r == num % den
  IN  IF 2 * r > den THEN q + 1
      ELSE IF 2 * r < den THEN q
      ELSE IF q % 2 = 0 THEN q ELSE q + 1

\* 2^e modulo m
RECURSIVE Pow2Mod(_, _)
Pow2Mod(e, m) == IF e = 0 THEN 1 % m ELSE (2 * Pow2Mod(e - 1, m)) % m

\* The least i >= from with count * 2^i >= total: count / total lies in
\* [2^-i, 2^(1-i)).
RECURSIVE BinadeOf(_, _, _)
BinadeOf(count, total, from) ==
  IF count * 2^from >= total THEN from ELSE BinadeOf(count, total, from + 1)

\* round((count / total) * 100) in IEEE 754 doubles, 0 <= count <= total.
\* The two roundings of the double arithmetic move the product by far less
\* than its distance to a half unless the exact share is k + 1/2; then the
\* quotient count / total is off by the remainder rho of count * 2^(52+i)
\* by total, in units of the last place, the product by 100 times that,
\* and the product leaves k + 1/2 when this exceeds half the spacing of the
\* doubles at k + 1/2: 32 units where the product is less than 2^(7-i), 64
\* (never exceeded) where it is not.
RoundedShare(count, total) ==
  LET num == count * 100
      k == num \div total
  IN  IF 2 * (num % total) # total THEN PyRound(num, total)
      ELSE LET i == BinadeOf(count, total, 1)
               rho == (count * Pow2Mod(MantissaBits + i, total)) % total
               up == 2 * rho > total
               narrow == 25 * count * 2^i < 32 * total
           IN  IF narrow /\ up /\ 100 * (total - rho) > 32 * total THEN k + 1
               ELSE IF narrow /\ ~up /\ 100 * rho > 32 * total THEN k
               ELSE PyRound(num, total)

\* sentiment_counts.get(label, 0)
SentimentCount(all_mentions, label) ==
  Cardinality({i \in 1..Len(all_mentions) : all_mentions[i].sentiment = label})

NeutralCounted(all_mentions) ==
  IF all_mentions = <<>>
  THEN [POSITIVE |-> 0, NEGATIVE |-> 0, NEUTRAL |-> 0]
  ELSE LET total == Len(all_mentions)
       IN  [POSITIVE |-> RoundedShare(SentimentCount(all_mentions, "POSITIVE"), total),
            NEGATIVE |-> RoundedShare(SentimentCount(all_mentions, "NEGATIVE"), total),
            NEUTRAL |-> PyRound((total - SentimentCount(all_mentions, "POSITIVE")
                                       - SentimentCount(all_mentions, "NEGATIVE")) * 100, total)]

analyze_mention_summary(all_mentions) ==
  IF all_mentions = <<>>
  THEN [POSITIVE |-> 0, NEGATIVE |-> 0, NEUTRAL |-> 0]
  ELSE LET total == Len(all_mentions)
           positive_pct == RoundedShare(SentimentCount(all_mentions, "POSITIVE"), total)
           negative_pct == RoundedShare(SentimentCount(all_mentions, "NEGATIVE"), total)
           neutral_pct == 100 - positive_pct - negative_pct
       IN  [POSITIVE |-> positive_pct, NEGATIVE |-> negative_pct, NEUTRAL |-> neutral_pct]

----------------------------------------------------------------------------
(* update_and_get_global_topics over global_word_corpus                    *)

\* Counter(s): how often each word occurs in s[lo..hi], as a bag.
RECURSIVE CounterOf(_, _, _)
CounterOf(s, lo, hi) ==
  IF lo > hi THEN EmptyBag
  ELSE IF lo = hi THEN SetToBag({s[lo]})
  ELSE LET mid == (lo + hi) \div 2
       IN  CounterOf(s, lo, mid) (+) CounterOf(s, mid + 1, hi)

\* The position at which each word of s[lo..hi] occurs first: a Counter
\* keeps its keys in the order of their first insertion.
RECURSIVE FirstSeen(_, _, _)
FirstSeen(s, lo, hi) ==
  IF lo > hi THEN <<>>
  ELSE IF lo = hi THEN (s[lo] :> lo)
  ELSE LET mid == (lo + hi) \div 2
       IN  FirstSeen(s, lo, mid) @@ FirstSeen(s, mid + 1, hi)

\* A tie of counts going to the word inserted last.
NextLatest(s, cnt, first, cand) ==
  LET m == Max({cnt[w] : w \in cand})
  IN  Max({first[w] : w \in {v \in cand : cnt[v] = m}})

\* The next element of most_common, as a position of s: the highest count,
\* and among the words that have it the one inserted first (heapq.nlargest
\* and sorted(reverse=True) both keep the insertion order of equal counts).
NextMostCommon(s, cnt, first, cand) ==
  LET m == Max({cnt[w] : w \in cand})
  IN  Min({first[w] : w \in {v \in cand : cnt[v] = m}})

\* The selected index is bound through a one-element set, so that it is
\* evaluated once per pick however the operator is evaluated.
RECURSIVE MostCommonFrom(_, _, _, _, _)
MostCommonFrom(s, cnt, first, cand, n) ==
  IF n = 0 \/ cand = {} THEN <<>>
  ELSE Only({<<s[best]>> \o MostCommonFrom(s, cnt, first, cand \ {s[best]}, n - 1) :
               best \in {NextMostCommon(s, cnt, first, cand)}})

\* [word for word, freq in Counter(s).most_common(n)]
most_common(s, n) ==
  Only({MostCommonFrom(t, cnt, first, DOMAIN cnt, n) :
          t \in {s}, cnt \in {CounterOf(s, 1, Len(s))}, first \in {FirstSeen(s, 1, Len(s))}})

\* A full buffer refusing the new words instead of dropping the old ones.
DequeExtendNewestDropped(corpus, words) ==
  LET all == corpus \o words
  IN  IF Len(all) > CorpusMaxLen THEN SubSeq(all, 1, CorpusMaxLen) ELSE all

\* deque(maxlen=CorpusMaxLen).extend(words): append on the right, drop on
\* the left what exceeds the capacity.
DequeExtend(corpus, words) ==
  LET all == corpus \o words
  IN  IF Len(all) > CorpusMaxLen
      THEN SubSeq(all, Len(all) - CorpusMaxLen + 1, Len(all))
      ELSE all

\* The words of the texts of new_mentions, joined in order.
AllText(new_mentions) == Flatten([i \in 1..Len(new_mentions) |-> new_mentions[i].text])

\* words = [w for w in cleaned.split() if w not in stop_words
\*          and w not in {brand_name.lower()} and len(w) > 3]
TopicWords(new_mentions, brand_name) ==
  LET all_text == AllText(new_mentions)
      cleaned == [i \in 1..Len(all_text) |-> Lower(all_text[i])]
      Kept(w) == w \notin stop_words /\ w # Lower(brand_name) /\ Len(w) > MinWordLen
  IN  SelectSeq(cleaned, Kept)

\* The new words replacing the corpus instead of joining it.
UpdateOverwritingCorpus(corpus, new_mentions, brand_name) ==
  Only({[corpus |-> words, topics |-> most_common(words, TopN)] :
          words \in {TopicWords(new_mentions, brand_name)}})

\* The function's two effects: the corpus it leaves and the list it returns.
update_and_get_global_topics(corpus, new_mentions, brand_name) ==
  Only({[corpus |-> extended, topics |-> most_common(extended, TopN)] :
          extended \in {DequeExtend(corpus, TopicWords(new_mentions, brand_name))}})

----------------------------------------------------------------------------
(* The state of the process.                                               *)

VARIABLES
  watched_brands,      \* the set watched_brands
  global_word_corpus,  \* the deque global_word_corpus, oldest word first
  sessions,            \* Socket.IO's view of each client: new, connected, gone
  runs,                \* the run_search_flow tasks in flight, by slot
  started,             \* how many runs start_search has started
  all_mentions,        \* SpecSummary: the list given to analyze_mention_summary
  summary,             \* SpecSummary: what analyze_mention_summary returned
  pushed,              \* SpecTopics: every word the calls kept, in push order
  topics,              \* SpecTopics: what the last call returned
  topics_brand,        \* SpecTopics: the brand_name of the last call
  calls,               \* SpecTopics: calls made
  bulk_calls,          \* SpecTopics: calls made with a long text
  timed_mentions,      \* SpecActivity: the running list given to the activity filter
  activity_out,        \* SpecActivity: the list the filter built
  fetched,             \* SpecFetch: the last call of a fetch helper and its result
  watermarks,          \* SpecPoller: the watermark of each (source, entity)
  published,           \* SpecPoller: the items the origins list
  pending,             \* SpecPoller: the (source, entity) pairs the cycle has yet to poll
  deliveries,          \* SpecPoller: how often each item was broadcast
  live                 \* SpecPoller: the last live_mention_update and who received it

vars == <<watched_brands, global_word_corpus, sessions, runs, started,
          all_mentions, summary, pushed, topics, topics_brand, calls, bulk_calls,
          timed_mentions, activity_out, fetched,
          watermarks, published, pending, deliveries, live>>

flow_vars == <<watched_brands, sessions, runs, started>>

summary_vars == <<all_mentions, summary>>

topics_vars == <<pushed, topics, topics_brand, calls, bulk_calls>>

activity_vars == <<timed_mentions, activity_out>>

poller_vars == <<watermarks, published, pending, deliveries, live>>

\* The variables of the specifications of single functions that the flow
\* leaves alone.
aside_vars == <<activity_vars, fetched, poller_vars>>

----------------------------------------------------------------------------
(* The watch registry's watermarks and the items the live poller reads.    *)

\* The connectors the poller asks: one, which keys the watermarks by pair all the same.
PollSources == {"Reddit"}

\* The normalized names a watch request can register.
PollEntities == {"acme", "rust"}

\* The keys of the watermark map.
PollKeys == PollSources \X PollEntities

\* The instant the poller started: the watermark of a key never polled.
PollerStart == 0

\* The instants an item can carry, all after the poller started.
Instants == (PollerStart + 1)..(PollerStart + MaxInstant)

\* An item an origin lists for an entity, with its timestamp.
Item(source, entity, at) == [source |-> source, entity |-> entity, at |-> at]

Items == {Item(key[1], key[2], at) : key \in PollKeys, at \in Instants}

----------------------------------------------------------------------------
(* Mentions, as the fetch helpers build them.  The fields source and url   *)
(* are left out: nothing in the flow reads them.                           *)

\* A timestamp string: the instant it reads as, in seconds, whether it
\* carries a UTC offset, and whether dateutil's parser accepts it.  Every
\* fetch helper stores the isoformat() of a datetime, which the parser
\* accepts; an item whose date does not parse raises inside the helper.
Timestamp(sec, aware) == [sec |-> sec, aware |-> aware, parses |-> TRUE]

\* A timestamp string that dateutil's parser rejects (ParserError), or a
\* value that is no string (TypeError).
Unparseable == [sec |-> 0, aware |-> FALSE, parses |-> FALSE]

Mention(platform, text, sentiment, timestamp) ==
  [platform |-> platform, text |-> text, sentiment |-> sentiment, timestamp |-> timestamp]

\* datetime.datetime.now(datetime.timezone.utc) when a run finalizes
NowValues == {3 * DaySeconds}

\* The names of the list tasks of run_search_flow, in its order.
tasks == <<"News", "Hacker News", "Reddit", "Dev.to">>

TaskIndex(name) == CHOOSE k \in 1..Len(tasks) : tasks[k] = name

\* What the origin of each task holds for a brand: the list the fetch helper
\* returns when the origin answers with items.
FetchedMentions(name) ==
  CASE name = "News" ->
         <<Mention("News", <<"Acme", "Launch", "is", "Great">>, "POSITIVE",
                   Timestamp(3 * DaySeconds - 3600, TRUE)),
           Mention("News", <<"this", "ACME", "app", "fails">>, "NEGATIVE",
                   Timestamp(2 * DaySeconds - 1, TRUE))>>
    [] name = "Hacker News" ->
         <<Mention("Hacker News", <<"acme", "launch", "rocks">>, "NEGATIVE",
                   Timestamp(2 * DaySeconds + 60, TRUE))>>
    [] name = "Reddit" ->
         <<Mention("Reddit", <<"Great", "launch", "with", "Rust">>, "POSITIVE",
                   Timestamp(2 * DaySeconds, TRUE))>>
    [] name = "Dev.to" ->
         <<Mention("Dev.to", <<"that", "Acme", "launch">>, "POSITIVE",
                   Timestamp(3 * DaySeconds - 60, FALSE))>>

\* The seconds the origin of each task needs to answer a request.
FetchSeconds(name) ==
  CASE name = "News" -> 3
    [] name = "Hacker News" -> 1
    [] name = "Reddit" -> 2
    [] name = "Dev.to" -> 1

----------------------------------------------------------------------------
(* The fetch helpers (lines 63-147).  The answer of an origin is a request *)
(* that fails (requests.get or .json() raises) or a list of items.  An     *)
(* item is of one of four kinds:                                           *)
(*   item            every field the helper reads is there                 *)
(*   untitled        no title: the helper passes it over with continue     *)
(*   unclassifiable  sentiment_pipeline raises on its text                 *)
(*   undated         its date is missing or does not parse: building the   *)
(*                   mention raises, after the classifier was called       *)

ItemKinds == {"item", "untitled", "unclassifiable", "undated"}

FailedRequest == [ok |-> FALSE, items |-> <<>>]

\* The answers of an origin whose titles begin with prefix.
Answers(prefix) ==
  {FailedRequest} \cup
  UNION {{[ok |-> TRUE,
           items |-> [i \in 1..n |-> [title |-> prefix \o ToString(i), kind |-> kinds[i]]]] :
            kinds \in [1..n -> ItemKinds]} : n \in 0..MaxItems}

\* sentiment_pipeline(text)[0]['label'].upper() on the model's texts.
sentiment_pipeline(title) ==
  IF title \in {"p1", "p3", "s2", "a1", "a3"} THEN "POSITIVE" ELSE "NEGATIVE"

\* The loop of a helper over the items of an answer, inside its try: the
\* mentions appended up to the first item that raises, whether one raised,
\* and the calls of sentiment_pipeline made.
Collected(platform, items) ==
  LET raising == {i \in 1..Len(items) : items[i].kind \in {"unclassifiable", "undated"}}
      stop == IF raising = {} THEN Len(items) + 1 ELSE Min(raising)
      reached == SubSeq(items, 1, stop - 1)
      titled == SelectSeq(reached, LAMBDA it : it.kind = "item")
  IN  [mentions |-> [k \in 1..Len(titled) |->
                       Mention(platform, <<titled[k].title>>,
                               sentiment_pipeline(titled[k].title), Timestamp(0, TRUE))],
       raised |-> raising # {},
       calls |-> Len(titled) + (IF raising = {} THEN 0 ELSE 1)]

\* try: ... except Exception: print(...) around the request and the loop.
Tried(platform, answer) ==
  IF answer.ok THEN Collected(platform, answer.items)
  ELSE [mentions |-> <<>>, raised |-> TRUE, calls |-> 0]

\* The result of a helper: the list it returns, the calls of the
\* classifier it made, and whether it asked the second origin.
Fetched(mentions, made, failover) ==
  [mentions |-> mentions, classifier_calls |-> made, failover |-> failover]

\* fetch_news_api(brand_name, api_key, gnews_key): NewsAPI first; its
\* mentions are returned if it did not raise and there are some; otherwise
\* GNews, if there is a key for it, appends to the same list.
fetch_news_api(primary, secondary, gnews_key) ==
  LET first == Tried("News", primary)
  IN  IF ~first.raised /\ first.mentions # <<>>
      THEN Fetched(first.mentions, first.calls, FALSE)
      ELSE IF gnews_key
           THEN LET second == Tried("News", secondary)
                IN  Fetched(first.mentions \o second.mentions,
                            first.calls + second.calls, TRUE)
           ELSE Fetched(first.mentions, first.calls, FALSE)

\* The three helpers of one origin: the list as it stands is returned,
\* whether or not the loop raised.
fetch_devto_mentions(answer) ==
  LET got == Tried("Dev.to", answer) IN Fetched(got.mentions, got.calls, FALSE)

fetch_hacker_news_mentions(answer) ==
  LET got == Tried("Hacker News", answer) IN Fetched(got.mentions, got.calls, FALSE)

fetch_reddit_mentions(answer) ==
  LET got == Tried("Reddit", answer) IN Fetched(got.mentions, got.calls, FALSE)

\* No helper was called yet.
NoFetch ==
  [helper |-> "", primary |-> FailedRequest, secondary |-> FailedRequest,
   gnews_key |-> FALSE, result |-> Fetched(<<>>, 0, FALSE)]

----------------------------------------------------------------------------
(* The activity list of run_search_flow (lines 229-240).                   *)

\* The comparison letting through what is exactly one day old.
IsRecentOrOneDayOld(timestamp, now) == timestamp.sec >= now - DaySeconds

\* ts > one_day_ago, a naive ts read as UTC
IsRecent(timestamp, now) == timestamp.sec > now - DaySeconds

activity_timestamps(current_search_mentions, now) ==
  LET Kept(m) == m.timestamp.parses /\ IsRecent(m.timestamp, now)
      kept == SelectSeq(current_search_mentions, Kept)
  IN  [k \in 1..Len(kept) |-> kept[k].timestamp]

----------------------------------------------------------------------------
(* Events, as sio.emit sends them.                                         *)

NoSentiment == [POSITIVE |-> 0, NEGATIVE |-> 0, NEUTRAL |-> 0]

\* to is the sid of the room the event goes to, or Broadcast without to=.
Broadcast == "*"

Event(name, to) ==
  [name |-> name, to |-> to, key |-> "", message |-> "", mentions |-> <<>>,
   sentiment |-> NoSentiment, topics |-> <<>>, activity |-> <<>>]

StatusUpdate(name) == [Event("status_update", Broadcast) EXCEPT !.message = name]

MentionBatch(sid, mentions) == [Event("mention_batch", sid) EXCEPT !.mentions = mentions]

SentimentUpdate(sid, s) ==
  [Event("summary_update", sid) EXCEPT !.key = "sentiment", !.sentiment = s]

ActivityUpdate(sid, stamps) == [Event("activity_update", sid) EXCEPT !.activity = stamps]

TopicsUpdate(sid, words) ==
  [Event("summary_update", sid) EXCEPT !.key = "topics", !.topics = words]

SearchComplete(sid) == Event("search_complete", sid)

\* live_mention_update: a broadcast, like every event emitted without a room.
LiveMentionUpdate(mentions) ==
  [name |-> "live_mention_update", to |-> Broadcast, mentions |-> mentions]

\* No live_mention_update was emitted yet.
NoLive == [event |-> [name |-> "", to |-> Broadcast, mentions |-> {}], recipients |-> {}]

----------------------------------------------------------------------------
(* run_search_flow: one task per slot, suspended at one of its awaits.     *)
(* pc names the await the task is suspended in:                            *)
(*   spawned   start_background_task has created it, it has not run yet    *)
(*   status    await sio.emit('status_update', ...)          line 216      *)
(*   fetching  await asyncio.to_thread(task_func)            line 217      *)
(*   batch     await sio.emit('mention_batch', ...)          line 219      *)
(*   summary   await sio.emit('summary_update', sentiment)   line 223      *)
(*   activity  await sio.emit('activity_update', ...)        line 241      *)
(*   topics    await sio.emit('summary_update', topics)      line 244      *)
(*   complete  await sio.emit('search_complete', ...)        line 246      *)
(* i counts the iterations of the loop of line 214.  id numbers the runs   *)
(* in the order start_search started them.  events and outcome are history:*)
(* what the task has emitted, and how each of its fetches ended.  sio.emit *)
(* is taken not to raise.                                                  *)

Sids == {"s1", "s2"}

Slots == 1..MaxConcurrent

IdleRun ==
  [pc |-> "idle", id |-> 0, sid |-> "", brand_name |-> "", i |-> 0, mentions |-> <<>>,
   current_search_mentions |-> <<>>, events |-> <<>>, outcome |-> <<>>]

InFlight == {r \in Slots : runs[r].pc # "idle"}

\* How a fetch ended: with mentions, empty, or raised; took is the time the
\* origin needed, kept for a fetch that returned mentions.
Outcome(name, kind, took) == [name |-> name, kind |-> kind, took |-> took]

\* The sessions an event that is being emitted goes to: sio.emit(event,
\* data, to=sid) delivers to the client sid if it is connected,
\* sio.emit(event, data) to every connected client.
Recipients(event) ==
  {s \in Sids : sessions[s] = "connected" /\ event.to \in {s, Broadcast}}

Emit(run, event) == [run EXCEPT !.events = Append(@, event)]

\* The loop taking the list from its end.
CurrentTaskReversed(run) == tasks[Len(tasks) + 1 - run.i]

\* for name, task_func in tasks: the task of iteration i.
CurrentTask(run) == tasks[run.i]

\* The payloads of the mention_batch events among events[1..n], joined.
BatchesUpTo(events, n) ==
  LET batches == SelectSeq(SubSeq(events, 1, n), LAMBDA e : e.name = "mention_batch")
  IN  Flatten([k \in 1..Len(batches) |-> batches[k].mentions])

\* Lines 227-241: the loop is over; build the activity list and emit it.
Finalizing(run, now) ==
  [Emit(run, ActivityUpdate(run.sid, activity_timestamps(run.current_search_mentions, now)))
     EXCEPT !.pc = "activity"]

\* The loop leaving before its last task.
NextIterationStopsEarly(run, now) ==
  IF run.i < Len(tasks) - 1
  THEN LET next == [run EXCEPT !.i = run.i + 1, !.pc = "status"]
       IN  Emit(next, StatusUpdate(CurrentTask(next)))
  ELSE Finalizing(run, now)

\* The end of one iteration of the loop of line 214: the next iteration up
\* to its status_update, or after the last task the finalization.
NextIteration(run, now) ==
  IF run.i < Len(tasks)
  THEN LET next == [run EXCEPT !.i = run.i + 1, !.pc = "status"]
       IN  Emit(next, StatusUpdate(CurrentTask(next)))
  ELSE Finalizing(run, now)

----------------------------------------------------------------------------
(* The Socket.IO handlers.                                                 *)

\* What a client may send as the data of start_search.
NoBrand == [x \in {} |-> x]

DataInputs == {[brand |-> "Acme"], [brand |-> "Acme "], [brand |-> ""], NoBrand}

\* data.get('brand')
Brand(data) == IF "brand" \in DOMAIN data THEN data.brand ELSE ""

\* connect(sid, environ): prints; Socket.IO has the client connected.
connect(sid) ==
  /\ sessions[sid] = "new"
  /\ sessions' = [sessions EXCEPT ![sid] = "connected"]
  /\ UNCHANGED <<watched_brands, global_word_corpus, runs, started, summary_vars, topics_vars, aside_vars>>

\* disconnect(sid): prints; no run of the session is touched.
disconnect(sid) ==
  /\ sessions[sid] = "connected"
  /\ sessions' = [sessions EXCEPT ![sid] = "gone"]
  /\ UNCHANGED <<watched_brands, global_word_corpus, runs, started, summary_vars, topics_vars, aside_vars>>

\* A start_search without a brand starting a run all the same.
StartSearchWithoutBrandRuns(sid, data) ==
  /\ sessions[sid] = "connected"
  /\ Brand(data) = ""
  /\ started < MaxRuns
  /\ InFlight # Slots
  /\ runs' = [runs EXCEPT ![Min(Slots \ InFlight)] =
                [IdleRun EXCEPT !.pc = "spawned", !.id = started + 1, !.sid = sid]]
  /\ started' = started + 1
  /\ UNCHANGED <<watched_brands, global_word_corpus, sessions, summary_vars, topics_vars, aside_vars>>

\* handle_start_search(sid, data) with no brand, or an empty one: returns.
StartSearchIgnored(sid, data) ==
  /\ sessions[sid] = "connected"
  /\ Brand(data) = ""
  /\ UNCHANGED vars

\* handle_start_search(sid, data): sio.start_background_task(run_search_flow,
\* sid, brand_name), and the handler returns.
handle_start_search(sid, data) ==
  /\ sessions[sid] = "connected"
  /\ Brand(data) # ""
  /\ started < MaxRuns
  /\ InFlight # Slots
  /\ LET r == Min(Slots \ InFlight)
     IN  runs' = [runs EXCEPT ![r] =
                    [IdleRun EXCEPT !.pc = "spawned", !.id = started + 1, !.sid = sid,
                                    !.brand_name = Brand(data)]]
  /\ started' = started + 1
  /\ UNCHANGED <<watched_brands, global_word_corpus, sessions, summary_vars, topics_vars, aside_vars>>

----------------------------------------------------------------------------
(* The steps of run_search_flow, from one await to the next.               *)

\* Lines 203-216: the task starts; the brand is watched, the first
\* status_update goes out.
RunBegins(r) ==
  /\ runs[r].pc = "spawned"
  /\ watched_brands' = watched_brands \cup {Lower(runs[r].brand_name)}
  /\ LET first == [runs[r] EXCEPT !.i = 1, !.pc = "status"]
     IN  runs' = [runs EXCEPT ![r] = Emit(first, StatusUpdate(CurrentTask(first)))]
  /\ UNCHANGED <<global_word_corpus, sessions, started, summary_vars, topics_vars, aside_vars>>

\* Line 217: the fetch of task i is handed to a worker thread.
Dispatch(r) ==
  /\ runs[r].pc = "status"
  /\ runs' = [runs EXCEPT ![r].pc = "fetching"]
  /\ UNCHANGED <<watched_brands, global_word_corpus, sessions, started, summary_vars, topics_vars, aside_vars>>

\* Lines 217-219: the fetch returns mentions; they are emitted as one
\* mention_batch.
FetchReturns(r) ==
  /\ runs[r].pc = "fetching"
  /\ LET run == runs[r]
         mentions == FetchedMentions(CurrentTask(run))
     IN  runs' = [runs EXCEPT ![r] =
                    [Emit(run, MentionBatch(run.sid, mentions))
                       EXCEPT !.mentions = mentions,
                              !.outcome = Append(@, Outcome(CurrentTask(run), "mentions", FetchSeconds(CurrentTask(run)))),
                              !.pc = "batch"]]
  /\ UNCHANGED <<watched_brands, global_word_corpus, sessions, started, summary_vars, topics_vars, aside_vars>>

\* An empty result emitted as a batch all the same.
FetchEmitsEmptyBatch(r, now) ==
  /\ runs[r].pc = "fetching"
  /\ LET run == runs[r]
         settled == [run EXCEPT !.outcome = Append(@, Outcome(CurrentTask(run), "empty", 0))]
     IN  runs' = [runs EXCEPT ![r] =
                    NextIteration(Emit(settled, MentionBatch(run.sid, <<>>)), now)]
  /\ UNCHANGED <<watched_brands, global_word_corpus, sessions, started, summary_vars, topics_vars, aside_vars>>

\* Lines 217-218: the fetch returns an empty list; the loop goes on.
FetchReturnsEmpty(r, now) ==
  /\ runs[r].pc = "fetching"
  /\ LET run == runs[r]
     IN  runs' = [runs EXCEPT ![r] =
                    NextIteration([run EXCEPT !.outcome =
                                     Append(@, Outcome(CurrentTask(run), "empty", 0))], now)]
  /\ UNCHANGED <<watched_brands, global_word_corpus, sessions, started, summary_vars, topics_vars, aside_vars>>

\* The exception caught around the loop instead of inside it: the tasks
\* that follow are not run.
FetchRaisesAbortsLoop(r, now) ==
  /\ runs[r].pc = "fetching"
  /\ LET run == runs[r]
     IN  runs' = [runs EXCEPT ![r] =
                    Finalizing([run EXCEPT !.outcome =
                                  Append(@, Outcome(CurrentTask(run), "raised", 0))], now)]
  /\ UNCHANGED <<watched_brands, global_word_corpus, sessions, started, summary_vars, topics_vars, aside_vars>>

\* The exception not caught: the task of the run ends with it.
FetchRaisesEndsRun(r, now) ==
  /\ runs[r].pc = "fetching"
  /\ runs' = [runs EXCEPT ![r] = IdleRun]
  /\ UNCHANGED <<watched_brands, global_word_corpus, sessions, started, summary_vars, topics_vars, aside_vars>>

\* Lines 217, 224-225: the task raises; the exception is caught and
\* printed, the loop goes on.
FetchRaises(r, now) ==
  /\ runs[r].pc = "fetching"
  /\ LET run == runs[r]
     IN  runs' = [runs EXCEPT ![r] =
                    NextIteration([run EXCEPT !.outcome =
                                     Append(@, Outcome(CurrentTask(run), "raised", 0))], now)]
  /\ UNCHANGED <<watched_brands, global_word_corpus, sessions, started, summary_vars, topics_vars, aside_vars>>

\* The summary of the new batch alone.
SummarizedBatchOnly(run) == run.mentions

\* The list that line 222 summarizes.
SummarizedList(run) == run.current_search_mentions \o run.mentions

\* Lines 220-223: the batch joins the running list, the summary of the
\* whole list is computed and emitted.
AfterBatch(r) ==
  /\ runs[r].pc = "batch"
  /\ LET run == runs[r]
         summary_so_far == analyze_mention_summary(SummarizedList(run))
     IN  runs' = [runs EXCEPT ![r] =
                    [Emit(run, SentimentUpdate(run.sid, summary_so_far))
                       EXCEPT !.current_search_mentions = @ \o run.mentions,
                              !.pc = "summary"]]
  /\ UNCHANGED <<watched_brands, global_word_corpus, sessions, started, summary_vars, topics_vars, aside_vars>>

\* After line 223: the loop goes on.
AfterSummary(r, now) ==
  /\ runs[r].pc = "summary"
  /\ runs' = [runs EXCEPT ![r] = NextIteration(@, now)]
  /\ UNCHANGED <<watched_brands, global_word_corpus, sessions, started, summary_vars, topics_vars, aside_vars>>

\* Lines 243-244: the corpus takes the words of the run, the topics go out.
AfterActivity(r) ==
  /\ runs[r].pc = "activity"
  /\ LET run == runs[r]
         result == update_and_get_global_topics(global_word_corpus,
                                                run.current_search_mentions, run.brand_name)
     IN  /\ global_word_corpus' = result.corpus
         /\ runs' = [runs EXCEPT ![r] =
                       [Emit(run, TopicsUpdate(run.sid, result.topics)) EXCEPT !.pc = "topics"]]
  /\ UNCHANGED <<watched_brands, sessions, started, summary_vars, topics_vars, aside_vars>>

\* Line 246: search_complete goes out.
AfterTopics(r) ==
  /\ runs[r].pc = "topics"
  /\ runs' = [runs EXCEPT ![r] = [Emit(@, SearchComplete(@.sid)) EXCEPT !.pc = "complete"]]
  /\ UNCHANGED <<watched_brands, global_word_corpus, sessions, started, summary_vars, topics_vars, aside_vars>>

\* Line 247: the task prints and ends; its locals are gone.
RunEnds(r) ==
  /\ runs[r].pc = "complete"
  /\ runs' = [runs EXCEPT ![r] = IdleRun]
  /\ UNCHANGED <<watched_brands, global_word_corpus, sessions, started, summary_vars, topics_vars, aside_vars>>

----------------------------------------------------------------------------
(* Spec: the server, its sessions and its runs.                            *)

Init ==
  /\ watched_brands = {}
  /\ global_word_corpus = <<>>
  /\ sessions = [s \in Sids |-> "new"]
  /\ runs = [r \in Slots |-> IdleRun]
  /\ started = 0
  /\ all_mentions = <<>>
  /\ summary = NoSentiment
  /\ pushed = <<>>
  /\ topics = <<>>
  /\ topics_brand = ""
  /\ calls = 0
  /\ bulk_calls = 0
  /\ timed_mentions = <<>>
  /\ activity_out = <<>>
  /\ fetched = NoFetch
  /\ watermarks = [key \in PollKeys |-> PollerStart]
  /\ published = {}
  /\ pending = {}
  /\ deliveries = [item \in Items |-> 0]
  /\ live = NoLive

Next ==
  \/ \E sid \in Sids : connect(sid)
  \/ \E sid \in Sids : disconnect(sid)
  \/ \E sid \in Sids, data \in DataInputs : StartSearchIgnored(sid, data)
  \/ \E sid \in Sids, data \in DataInputs :
       Cardinality(InFlight) < MaxInFlight /\ handle_start_search(sid, data)
  \/ \E r \in Slots : RunBegins(r)
  \/ \E r \in Slots : Dispatch(r)
  \/ \E r \in Slots : FetchReturns(r)
  \/ \E r \in Slots, now \in NowValues : FetchReturnsEmpty(r, now)
  \/ \E r \in Slots, now \in NowValues : FetchRaises(r, now)
  \/ \E r \in Slots : AfterBatch(r)
  \/ \E r \in Slots, now \in NowValues : AfterSummary(r, now)
  \/ \E r \in Slots : AfterActivity(r)
  \/ \E r \in Slots : AfterTopics(r)
  \/ \E r \in Slots : RunEnds(r)

Spec == Init /\ [][Next]_vars

\* A step of the run in slot r.
RunStep(r) ==
  \/ RunBegins(r)
  \/ Dispatch(r)
  \/ FetchReturns(r)
  \/ \E now \in NowValues : FetchReturnsEmpty(r, now)
  \/ \E now \in NowValues : FetchRaises(r, now)
  \/ AfterBatch(r)
  \/ \E now \in NowValues : AfterSummary(r, now)
  \/ AfterActivity(r)
  \/ AfterTopics(r)

\* FairSpec: the server with the scheduling of its runs.  The event loop
\* resumes every task that can go on, and a fetch ends: the requests of the
\* fetch helpers carry timeout=API_TIMEOUT.
NextFair ==
  \/ \E sid \in Sids : connect(sid)
  \/ \E sid \in Sids : disconnect(sid)
  \/ \E sid \in Sids, data \in DataInputs : StartSearchIgnored(sid, data)
  \/ \E sid \in Sids, data \in DataInputs :
       /\ started < MaxFairRuns
       /\ Cardinality(InFlight) < MaxInFlight
       /\ handle_start_search(sid, data)
  \/ \E r \in Slots : RunStep(r)
  \/ \E r \in Slots : RunEnds(r)

FairSpec == Init /\ [][NextFair]_vars /\ \A r \in Slots : WF_vars(RunStep(r))

----------------------------------------------------------------------------
(* SpecSummary: analyze_mention_summary over every list of mentions of up  *)
(* to MaxMentions labels.                                                  *)

\* The labels the classifier's output is compared against, upper-cased.
Labels == {"POSITIVE", "NEGATIVE", "NEUTRAL"}

\* One more mention is classified, and the list is summarized anew.
Summarize(label) ==
  /\ Len(all_mentions) < MaxMentions
  /\ all_mentions' = Append(all_mentions, Mention("News", <<"Acme">>, label, Timestamp(0, TRUE)))
  /\ summary' = analyze_mention_summary(all_mentions')
  /\ UNCHANGED <<global_word_corpus, flow_vars, topics_vars, aside_vars>>

NextSummary == \E label \in Labels : Summarize(label)

SpecSummary == Init /\ [][NextSummary]_vars

----------------------------------------------------------------------------
(* SpecLongSummary: analyze_mention_summary over long lists.  The result   *)
(* depends on the list through the count of each label only, so the lists  *)
(* are built label after label: POSITIVE, then NEGATIVE, then NEUTRAL.      *)

LabelOrder == <<"POSITIVE", "NEGATIVE", "NEUTRAL">>

\* The place of the label of the last mention in LabelOrder, 1 on the empty
\* list.
LastPlace ==
  IF all_mentions = <<>> THEN 1
  ELSE CHOOSE k \in 1..Len(LabelOrder) :
         LabelOrder[k] = all_mentions[Len(all_mentions)].sentiment

\* One more mention joins the list, and the list is summarized anew.
SummarizeLong(k) ==
  /\ Len(all_mentions) < MaxLong
  /\ k >= LastPlace
  /\ k = 3 => SentimentCount(all_mentions, "NEUTRAL") < MaxOther
  /\ all_mentions' = Append(all_mentions,
                           Mention("News", <<"Acme">>, LabelOrder[k], Timestamp(0, TRUE)))
  /\ summary' = analyze_mention_summary(all_mentions')
  /\ UNCHANGED <<global_word_corpus, flow_vars, topics_vars, aside_vars>>

NextLongSummary == \E k \in 1..Len(LabelOrder) : SummarizeLong(k)

SpecLongSummary == Init /\ [][NextLongSummary]_vars

----------------------------------------------------------------------------
(* SpecTopics: update_and_get_global_topics called over and over on the    *)
(* one corpus of the process, for several entities.                        *)

\* A mention of which only the text matters.
Text(words) == Mention("News", words, "POSITIVE", Timestamp(0, TRUE))

\* A text of n words that differ from one another, each longer than
\* MinWordLen.
DistinctWords(n) == [i \in 1..n |-> "word" \o ToString(i)]

\* More words than the corpus holds.
BulkLen == CorpusMaxLen + 500

\* More distinct words than a call returns, the first of them twice.
ManyWords == DistinctWords(TopN + 5) \o <<"word1">>

TopicInputs ==
  { [new_mentions |-> <<Text(<<"Acme", "is", "great">>)>>, brand_name |-> "acme"],
    [new_mentions |-> <<Text(<<"Acme", "rocks">>)>>, brand_name |-> "rust"],
    [new_mentions |-> <<>>, brand_name |-> "acme"],
    [new_mentions |-> <<Text(<<"Rust", "launch">>), Text(<<"Launch", "great", "rust">>)>>,
     brand_name |-> "Acme"],
    [new_mentions |-> <<Text(<<"ACME", "great", "this", "launch">>)>>, brand_name |-> "Acme"],
    [new_mentions |-> <<Text(ManyWords)>>, brand_name |-> "acme"] }

\* A call of update_and_get_global_topics, with what it pushed and what it
\* returned kept for the record.
TopicsCalled(new_mentions, brand_name) ==
  /\ \E result \in {update_and_get_global_topics(global_word_corpus, new_mentions, brand_name)} :
       /\ global_word_corpus' = result.corpus
       /\ topics' = result.topics
  /\ pushed' = pushed \o TopicWords(new_mentions, brand_name)
  /\ topics_brand' = brand_name
  /\ UNCHANGED <<flow_vars, summary_vars, aside_vars>>

TopicsCall(input) ==
  /\ calls < MaxCalls
  /\ TopicsCalled(input.new_mentions, input.brand_name)
  /\ calls' = calls + 1
  /\ UNCHANGED bulk_calls

\* A call whose mentions hold BulkLen distinct words.
BulkTopicsCall ==
  /\ bulk_calls < MaxBulkCalls
  /\ TopicsCalled(<<Text(DistinctWords(BulkLen))>>, "acme")
  /\ bulk_calls' = bulk_calls + 1
  /\ UNCHANGED calls

NextTopics ==
  \/ \E input \in TopicInputs : TopicsCall(input)
  \/ BulkTopicsCall

SpecTopics == Init /\ [][NextTopics]_vars

----------------------------------------------------------------------------
(* SpecFetch: one call of a fetch helper, on every answer of its origins   *)
(* of up to MaxItems items.                                                *)

FetchNews(primary, secondary, gnews_key) ==
  /\ fetched = NoFetch
  /\ fetched' = [helper |-> "News", primary |-> primary, secondary |-> secondary,
                 gnews_key |-> gnews_key,
                 result |-> fetch_news_api(primary, secondary, gnews_key)]
  /\ UNCHANGED <<global_word_corpus, flow_vars, summary_vars, topics_vars, activity_vars, poller_vars>>

\* A call of one of the helpers without failover.
FetchOne(helper, answer) ==
  /\ fetched = NoFetch
  /\ fetched' = [NoFetch EXCEPT
                   !.helper = helper, !.primary = answer,
                   !.result = CASE helper = "Dev.to" -> fetch_devto_mentions(answer)
                                [] helper = "Hacker News" -> fetch_hacker_news_mentions(answer)
                                [] helper = "Reddit" -> fetch_reddit_mentions(answer)]
  /\ UNCHANGED <<global_word_corpus, flow_vars, summary_vars, topics_vars, activity_vars, poller_vars>>

NextFetch ==
  \/ \E primary \in Answers("p"), secondary \in Answers("s"), gnews_key \in BOOLEAN :
       FetchNews(primary, secondary, gnews_key)
  \/ \E helper \in {"Dev.to", "Hacker News", "Reddit"}, answer \in Answers("a") :
       FetchOne(helper, answer)

SpecFetch == Init /\ [][NextFetch]_vars

----------------------------------------------------------------------------
(* SpecActivity: the activity filter of run_search_flow (lines 229-240)    *)
(* over every running list of up to MaxTimed mentions.                     *)

\* now, for the one value of NowValues.
Now == CHOOSE now \in NowValues : TRUE

\* Timestamps of mentions: 1 hour old, one day and a second old, exactly one
\* day old, 23 hours 59 minutes old; without UTC offset 1 minute old and
\* one day old; and one that does not parse.
TimestampInputs ==
  { Timestamp(Now - 3600, TRUE), Timestamp(Now - DaySeconds - 1, TRUE),
    Timestamp(Now - DaySeconds, TRUE), Timestamp(Now - DaySeconds + 60, TRUE),
    Timestamp(Now - 60, FALSE), Timestamp(Now - DaySeconds, FALSE), Unparseable }

\* One more mention joins the running list, and the list is filtered.
FilterActivity(timestamp) ==
  /\ Len(timed_mentions) < MaxTimed
  /\ timed_mentions' = Append(timed_mentions, Mention("News", <<"Acme">>, "POSITIVE", timestamp))
  /\ activity_out' = activity_timestamps(timed_mentions', Now)
  /\ UNCHANGED <<global_word_corpus, flow_vars, summary_vars, topics_vars, fetched, poller_vars>>

NextActivity == \E timestamp \in TimestampInputs : FilterActivity(timestamp)

SpecActivity == Init /\ [][NextActivity]_vars

----------------------------------------------------------------------------
(* SpecConcurrent: runs of run_search_flow interleaved at their awaits,    *)
(* with origins that answer.                                               *)

ConcurrentInputs == {data \in DataInputs : Brand(data) # ""}

NextConcurrent ==
  \/ \E sid \in Sids : connect(sid)
  \/ \E sid \in Sids, data \in ConcurrentInputs : handle_start_search(sid, data)
  \/ \E r \in Slots : RunBegins(r)
  \/ \E r \in Slots : Dispatch(r)
  \/ \E r \in Slots : FetchReturns(r)
  \/ \E r \in Slots, now \in NowValues : FetchReturnsEmpty(r, now)
  \/ \E r \in Slots : AfterBatch(r)
  \/ \E r \in Slots, now \in NowValues : AfterSummary(r, now)
  \/ \E r \in Slots : AfterActivity(r)
  \/ \E r \in Slots : AfterTopics(r)
  \/ \E r \in Slots : RunEnds(r)

SpecConcurrent == Init /\ [][NextConcurrent]_vars

----------------------------------------------------------------------------
(* The live poller: one background loop over the watch registry.           *)

\* run_search_flow's registration of the entity, without the rest of the run.
Watch(brand) ==
  /\ watched_brands' = watched_brands \cup {Lower(brand)}
  /\ watched_brands' # watched_brands
  /\ UNCHANGED <<global_word_corpus, sessions, runs, started, summary_vars, topics_vars, aside_vars>>

\* An origin lists one more item for an entity.
Publish(item) ==
  /\ item \notin published
  /\ published' = published \cup {item}
  /\ UNCHANGED <<global_word_corpus, flow_vars, summary_vars, topics_vars,
                 activity_vars, fetched, watermarks, pending, deliveries, live>>

\* fetch_new_since(entity, watermark) of a source: the items the origin
\* lists for the entity that are newer than the watermark, the watermark's
\* own instant included.
FetchSinceInclusive(source, entity, watermark) ==
  {item \in published :
     item.source = source /\ item.entity = entity /\ item.at >= watermark}

\* fetch_new_since(entity, watermark) of a source: the items the origin
\* lists for the entity that are strictly newer than the watermark.
fetch_new_since(source, entity, watermark) ==
  {item \in published :
     item.source = source /\ item.entity = entity /\ item.at > watermark}

\* The newest timestamp among mentions, taken as an explicit maximum.
Newest(mentions) == Max({item.at : item \in mentions})

\* The cycle begins after the sleep: the registry is snapshot, and every
\* source is to be asked for every entity of the snapshot.  With an empty
\* registry the poller goes on sleeping.
CycleBegins ==
  /\ pending = {}
  /\ watched_brands \cap PollEntities # {}
  /\ pending' = PollSources \X (watched_brands \cap PollEntities)
  /\ UNCHANGED <<global_word_corpus, flow_vars, summary_vars, topics_vars,
                 activity_vars, fetched, watermarks, published, deliveries, live>>

\* The poller asks one source for one entity of the snapshot.  New mentions
\* advance the watermark of the pair to the newest of them and are
\* broadcast; without new mentions nothing changes but the poller's place.
Poll(key) ==
  /\ key \in pending
  /\ pending' = pending \ {key}
  /\ \E new \in {fetch_new_since(key[1], key[2], watermarks[key])} :
       IF new = {}
       THEN UNCHANGED <<watermarks, deliveries, live>>
       ELSE /\ watermarks' = [watermarks EXCEPT ![key] = Newest(new)]
            /\ deliveries' = [item \in Items |->
                                IF item \in new THEN deliveries[item] + 1
                                ELSE deliveries[item]]
            /\ live' = [event |-> LiveMentionUpdate(new),
                        recipients |-> Recipients(LiveMentionUpdate(new))]
  /\ UNCHANGED <<global_word_corpus, flow_vars, summary_vars, topics_vars,
                 activity_vars, fetched, published>>

\* The connector raises for the pair: the error is caught and logged, and
\* the loop goes on to the next pair.
PollFails(key) ==
  /\ key \in pending
  /\ pending' = pending \ {key}
  /\ UNCHANGED <<global_word_corpus, flow_vars, summary_vars, topics_vars,
                 activity_vars, fetched, watermarks, published, deliveries, live>>

WatchInputs == {"Acme", "ACME", "Rust"}

PollerStep ==
  \/ CycleBegins
  \/ \E key \in PollKeys : Poll(key)
  \/ \E key \in PollKeys : PollFails(key)

NextPoller ==
  \/ \E sid \in Sids : connect(sid)
  \/ \E sid \in Sids : disconnect(sid)
  \/ \E brand \in WatchInputs : Watch(brand)
  \/ \E item \in Items : Publish(item)
  \/ PollerStep

\* The loop never ends and no step of it blocks for ever.
SpecPoller == Init /\ [][NextPoller]_vars /\ WF_vars(PollerStep)

----------------------------------------------------------------------------
(* What the claims speak of.                                               *)

\* The positions in events of the events called name.
EventIdx(events, name) == {j \in 1..Len(events) : events[j].name = name}

SummaryIdx(events, key) ==
  {j \in EventIdx(events, "summary_update") : events[j].key = key}

\* The fetches of a run that ended in a given way, as positions of outcome.
Ended(run, kind) == {k \in 1..Len(run.outcome) : run.outcome[k].kind = kind}

\* The positions of the mention_batch events that carry mentions of a task.
BatchesOf(events, name) ==
  {j \in EventIdx(events, "mention_batch") :
     \E m \in Range(events[j].mentions) : m.platform = name}

\* A task of the run is outstanding: dispatched to a thread, or its result
\* not yet worked off.
TaskOutstanding(run) == run.pc \in {"status", "fetching", "batch", "summary"}

----------------------------------------------------------------------------
\* C1: a run over the n sources of which k return a non-empty result emits
\* exactly k mention_batch events, then exactly one activity_update, then
\* exactly one summary_update with topics, then exactly one search_complete,
\* which is its last event; no mention_batch follows the activity_update.
C1_EventsOfARun ==
  \A r \in Slots :
    LET run == runs[r]
        ev == run.events
        batches == EventIdx(ev, "mention_batch")
        activity == EventIdx(ev, "activity_update")
        topical == SummaryIdx(ev, "topics")
        complete == EventIdx(ev, "search_complete")
    IN  /\ Cardinality(batches) = Cardinality(Ended(run, "mentions"))
        /\ \A a \in activity : \A b \in batches : b < a
        /\ \A t \in topical : \E a \in activity : a < t
        /\ \A c \in complete : \E t \in topical : t < c
        /\ Cardinality(activity) <= 1 /\ Cardinality(topical) <= 1
        /\ Cardinality(complete) <= 1
        /\ run.pc = "complete" =>
             /\ Len(run.outcome) = Len(tasks)
             /\ Cardinality(activity) = 1 /\ Cardinality(topical) = 1
             /\ complete = {Len(ev)}

\* A run is complete with two of its four sources having returned mentions,
\* one an empty list and one having raised.
C1_Witness ==
  \E r \in Slots :
    /\ runs[r].pc = "complete"
    /\ Cardinality(Ended(runs[r], "mentions")) = 2
    /\ Cardinality(Ended(runs[r], "empty")) = 1
    /\ Cardinality(Ended(runs[r], "raised")) = 1
    /\ Cardinality(EventIdx(runs[r].events, "mention_batch")) = 2

----------------------------------------------------------------------------
----------------------------------------------------------------------------
\* C3: a task that raises counts as a result of no mentions: no
\* mention_batch of its source goes out, every task of the list is still
\* run, the mentions of every source that returned some are emitted, and
\* the run reaches its finalization; for any set of failing sources.
C3_RaisingTaskIsEmptyResult ==
  \A r \in Slots :
    LET run == runs[r]
        ev == run.events
    IN  /\ \A k \in Ended(run, "raised") : BatchesOf(ev, run.outcome[k].name) = {}
        /\ \A k \in Ended(run, "mentions") :
             \E j \in EventIdx(ev, "mention_batch") :
               ev[j].mentions = FetchedMentions(run.outcome[k].name)
        /\ run.pc \in {"activity", "topics", "complete"} =>
             /\ Len(run.outcome) = Len(tasks)
             /\ \A k \in 1..Len(tasks) : run.outcome[k].name = tasks[k]
             /\ EventIdx(ev, "activity_update") # {}

\* A complete run whose first and third task raised and whose second and
\* fourth returned mentions, both batches emitted.
C3_Witness ==
  \E r \in Slots :
    /\ runs[r].pc = "complete"
    /\ Ended(runs[r], "raised") = {1, 3}
    /\ Ended(runs[r], "mentions") = {2, 4}
    /\ BatchesOf(runs[r].events, "Hacker News") # {}
    /\ BatchesOf(runs[r].events, "Dev.to") # {}

----------------------------------------------------------------------------
\* C4: the finalization of a run (activity_update, the topics
\* summary_update with the update of the corpus, search_complete) happens
\* once, when every task of the run has ended and none is outstanding; it
\* happens when every task failed too, and then the activity list is empty,
\* the corpus is left as it was and the topics are those of that corpus.
C4_FinalizationState ==
  \A r \in Slots :
    LET run == runs[r]
        ev == run.events
        final == EventIdx(ev, "activity_update") \cup SummaryIdx(ev, "topics")
                   \cup EventIdx(ev, "search_complete")
    IN  /\ TaskOutstanding(run) => final = {}
        /\ final # {} => Len(run.outcome) = Len(tasks)
        /\ Cardinality(EventIdx(ev, "activity_update")) <= 1
        /\ Cardinality(SummaryIdx(ev, "topics")) <= 1
        /\ Cardinality(EventIdx(ev, "search_complete")) <= 1
        /\ run.pc = "complete" => Cardinality(final) = 3
        /\ Ended(run, "mentions") = {} =>
             \A a \in EventIdx(ev, "activity_update") : ev[a].activity = <<>>

\* C4, the part of it about the corpus: only the finalization of a run
\* changes the corpus, and that of a run whose tasks all failed leaves it as
\* it was and returns the most common words of it.
C4_FinalizationStep ==
  /\ global_word_corpus' # global_word_corpus =>
       \E r \in Slots : runs[r].pc = "activity" /\ runs'[r].pc = "topics"
  /\ \A r \in Slots :
       runs[r].pc = "activity" /\ runs'[r].pc = "topics"
         /\ Ended(runs[r], "mentions") = {} =>
           /\ global_word_corpus' = global_word_corpus
           /\ runs'[r].events[Len(runs'[r].events)].topics
                = most_common(global_word_corpus, TopN)

\* C4: the finalization of a run happens once, after every task of the run
\* has ended, also when every task failed: in every state and every step.
C4_FinalizationOnce == []C4_FinalizationState /\ [][C4_FinalizationStep]_vars

\* A run is complete, every one of its tasks failed, and its topics are the
\* words an earlier run left in the corpus.
C4_Witness ==
  \E r \in Slots :
    /\ runs[r].pc = "complete"
    /\ Cardinality(Ended(runs[r], "raised")) = Len(tasks)
    /\ \E t \in SummaryIdx(runs[r].events, "topics") : runs[r].events[t].topics # <<>>
    /\ \E a \in EventIdx(runs[r].events, "activity_update") :
         runs[r].events[a].activity = <<>>

----------------------------------------------------------------------------
\* C5: every run that start_search started emits search_complete in the
\* end, whichever of its sources fail and whether or not its session
\* disconnects meanwhile.
C5_EveryRunCompletes ==
  \A n \in 1..MaxFairRuns :
    (\E r \in Slots : runs[r].id = n)
      ~> (\E r \in Slots : runs[r].id = n /\ runs[r].pc = "complete")

\* A run is complete whose session is gone and one of whose tasks raised.
C5_Witness ==
  \E r \in Slots :
    /\ runs[r].pc = "complete"
    /\ sessions[runs[r].sid] = "gone"
    /\ Ended(runs[r], "raised") # {}

----------------------------------------------------------------------------
\* pct is an integer nearest to the quotient num/den.
IsRounded(pct, num, den) ==
  /\ 2 * (pct * den - num) <= den
  /\ 2 * (num - pct * den) <= den

\* C6: for every non-empty list of mentions the three percentages of
\* analyze_mention_summary add up to 100; POSITIVE and NEGATIVE are the
\* rounded shares of their labels and NEUTRAL is 100 - POSITIVE - NEGATIVE.
C6_PercentagesSumTo100 ==
  all_mentions # <<>> =>
    LET total == Len(all_mentions)
    IN  /\ summary.POSITIVE + summary.NEGATIVE + summary.NEUTRAL = 100
        /\ summary.NEUTRAL = 100 - summary.POSITIVE - summary.NEGATIVE
        /\ IsRounded(summary.POSITIVE, 100 * SentimentCount(all_mentions, "POSITIVE"), total)
        /\ IsRounded(summary.NEGATIVE, 100 * SentimentCount(all_mentions, "NEGATIVE"), total)

\* Three mentions, one of each label: the shares round to 33 each, and
\* NEUTRAL takes the remaining 34.
C6_Witness ==
  /\ Len(all_mentions) = 3
  /\ \A label \in Labels : SentimentCount(all_mentions, label) = 1
  /\ summary = [POSITIVE |-> 33, NEGATIVE |-> 33, NEUTRAL |-> 34]

----------------------------------------------------------------------------
\* C7: the sentiment of every summary_update is that of the whole running
\* list of its run at the batch that set it off: the list is the payloads
\* of the mention_batch events of the run so far, that batch included, in
\* the order of their emission, and nothing else.
C7_SummaryOfRunningList ==
  \A r \in Slots :
    LET run == runs[r]
        ev == run.events
    IN  /\ \A j \in SummaryIdx(ev, "sentiment") :
             /\ j > 1 /\ ev[j - 1].name = "mention_batch"
             /\ ev[j].sentiment = analyze_mention_summary(BatchesUpTo(ev, j))
        /\ run.pc # "batch" => run.current_search_mentions = BatchesUpTo(ev, Len(ev))
        /\ run.pc = "batch" =>
             run.current_search_mentions \o run.mentions = BatchesUpTo(ev, Len(ev))

\* The second run, after a first one that pushed words into the corpus, has
\* emitted the batches of News and Hacker News and the summary of the three
\* mentions: one positive, two negative.
C7_Witness ==
  \E r \in Slots :
    /\ runs[r].id = 2
    /\ global_word_corpus # <<>>
    /\ runs[r].pc = "summary"
    /\ Len(runs[r].current_search_mentions) = 3
    /\ runs[r].events[Len(runs[r].events)].sentiment
         = [POSITIVE |-> 33, NEGATIVE |-> 67, NEUTRAL |-> 0]

----------------------------------------------------------------------------
\* C8: after any calls of update_and_get_global_topics the corpus holds at
\* most 2000 words, and they are the last min(2000, number pushed) words
\* that were pushed, in the order of their push: the oldest go first.
C8_CorpusIsLastPushed ==
  LET kept == Min({CorpusMaxLen, Len(pushed)})
  IN  /\ Len(global_word_corpus) <= CorpusMaxLen
      /\ global_word_corpus = SubSeq(pushed, Len(pushed) - kept + 1, Len(pushed))

\* 2500 distinct words were pushed, after some others: the corpus is the
\* last 2000 of them.
C8_Witness ==
  /\ calls > 0
  /\ Len(pushed) > BulkLen
  /\ Len(global_word_corpus) = CorpusMaxLen
  /\ global_word_corpus = SubSeq(DistinctWords(BulkLen), BulkLen - CorpusMaxLen + 1, BulkLen)

----------------------------------------------------------------------------
\* C9, as claimed: a call of update_and_get_global_topics for an entity
\* never returns the lower-cased name of the entity, whatever the calls
\* before it pushed into the corpus.
C9_NameNeverReturned == Lower(topics_brand) \notin Range(topics)

----------------------------------------------------------------------------
\* How often w occurs in s, and where it occurs first.
Occurrences(s, w) == Cardinality({i \in 1..Len(s) : s[i] = w})

FirstOccurrence(s, w) == Min({i \in 1..Len(s) : s[i] = w})

\* C10: what update_and_get_global_topics returns are the 20 most frequent
\* distinct words of the corpus after the push, or all of them if there are
\* fewer, the more frequent first, and of two words of equal frequency the
\* one first whose first occurrence in the corpus is the earlier.
C10_TopicsAreMostCommon ==
  LET s == global_word_corpus
      counter == CounterOf(s, 1, Len(s))
      first == FirstSeen(s, 1, Len(s))
      n == Len(topics)
  IN  /\ n = Min({TopN, Cardinality(Range(s))})
      /\ \A j \in 1..n :
           /\ topics[j] \in Range(s)
           /\ counter[topics[j]] = Occurrences(s, topics[j])
           /\ first[topics[j]] = FirstOccurrence(s, topics[j])
      /\ \A j \in 1..(n - 1) :
           \/ Occurrences(s, topics[j]) > Occurrences(s, topics[j + 1])
           \/ /\ Occurrences(s, topics[j]) = Occurrences(s, topics[j + 1])
              /\ FirstOccurrence(s, topics[j]) < FirstOccurrence(s, topics[j + 1])
      /\ \A w \in Range(s) \ Range(topics) :
           \/ counter[w] < counter[topics[n]]
           \/ counter[w] = counter[topics[n]] /\ first[w] > first[topics[n]]

\* The corpus is full and its oldest words are gone; "rust" and "launch"
\* occur twice, "rust" first; then come the words that occur once, from the
\* oldest the corpus still holds, and "great", pushed later, is not among
\* the twenty.
C10_Witness ==
  /\ Len(global_word_corpus) = CorpusMaxLen
  /\ Len(pushed) > CorpusMaxLen
  /\ Len(topics) = TopN
  /\ topics[1] = "rust" /\ topics[2] = "launch"
  /\ topics[3] = global_word_corpus[1]
  /\ "great" \in Range(global_word_corpus) \ Range(topics)

----------------------------------------------------------------------------
\* C11: the activity list is the timestamps, in the order of the running
\* list, of the mentions whose instant is later than now minus 24 hours, a
\* timestamp without offset read as UTC; a mention one day old or older is
\* left out, and one whose timestamp does not parse is skipped alone.
C11_ActivityIsLastDay ==
  LET kept == {i \in 1..Len(timed_mentions) :
                 /\ timed_mentions[i].timestamp.parses
                 /\ Now - timed_mentions[i].timestamp.sec < DaySeconds}
      Nth(j) == CHOOSE i \in kept : Cardinality({h \in kept : h < i}) = j - 1
  IN  /\ Len(activity_out) = Cardinality(kept)
      /\ \A j \in 1..Len(activity_out) : activity_out[j] = timed_mentions[Nth(j)].timestamp

\* A list of a mention 23 hours 59 minutes old, one that does not parse,
\* one exactly a day old, one a day and a second old, and one without
\* offset a minute old: the first and the last are the activity.
C11_Witness ==
  /\ Len(timed_mentions) = 5
  /\ timed_mentions[1].timestamp = Timestamp(Now - DaySeconds + 60, TRUE)
  /\ timed_mentions[2].timestamp = Unparseable
  /\ timed_mentions[3].timestamp = Timestamp(Now - DaySeconds, TRUE)
  /\ timed_mentions[4].timestamp = Timestamp(Now - DaySeconds - 1, TRUE)
  /\ timed_mentions[5].timestamp = Timestamp(Now - 60, FALSE)
  /\ activity_out = <<Timestamp(Now - DaySeconds + 60, TRUE), Timestamp(Now - 60, FALSE)>>

----------------------------------------------------------------------------
\* The run is suspended in a sio.emit: its last event is being emitted.
Emitting(run) == run.pc \in {"status", "batch", "summary", "activity", "topics", "complete"}

\* C12, as claimed: every event of a run goes to the session that started
\* the run and to no other: whenever a run emits an event, no other session
\* is among those the event is delivered to.
C12_OnlyRequesterHears ==
  \A r \in Slots :
    Emitting(runs[r]) =>
      Recipients(runs[r].events[Len(runs[r].events)]) \subseteq {runs[r].sid}

----------------------------------------------------------------------------
\* C13, in every state: no run was started for an absent or empty brand,
\* and none is in the watch registry.
C13_NoRunWithoutBrand ==
  /\ \A r \in InFlight : runs[r].brand_name # ""
  /\ "" \notin watched_brands
  /\ Cardinality(InFlight) <= started

\* C13, in every step: a run comes to be only by a start_search that is
\* counted; such a step starts exactly one run, which has not run yet when
\* the handler returns: it has emitted nothing, and the registry, the corpus
\* and the other runs are as they were.
C13_StartStep ==
  LET begun == {r \in Slots : runs[r].pc = "idle" /\ runs'[r].pc # "idle"}
  IN  /\ started' \in {started, started + 1}
      /\ begun # {} <=> started' = started + 1
      /\ started' = started + 1 =>
           /\ Cardinality(begun) = 1
           /\ \A r \in begun :
                /\ runs'[r].pc = "spawned"
                /\ runs'[r].events = <<>>
                /\ runs'[r].id = started'
           /\ \A r \in Slots \ begun : runs'[r] = runs[r]
           /\ watched_brands' = watched_brands
           /\ global_word_corpus' = global_word_corpus

\* C13: a start_search whose brand is absent or empty starts no run, emits
\* nothing and leaves registry and corpus alone; one with a brand starts
\* exactly one run in the background and returns without waiting for it.
C13_StartSearch == []C13_NoRunWithoutBrand /\ [][C13_StartStep]_vars

\* The second run has been started and has not run yet; the first one has
\* put its brand into the registry.
C13_Witness ==
  \E r \in Slots :
    /\ runs[r].pc = "spawned"
    /\ runs[r].id = 2
    /\ runs[r].events = <<>>
    /\ watched_brands # {}

----------------------------------------------------------------------------
\* The answer made the helper raise inside its try: the request failed, or
\* an item could not be classified or dated.
Threw(answer) ==
  \/ ~answer.ok
  \/ \E i \in 1..Len(answer.items) : answer.items[i].kind \in {"unclassifiable", "undated"}

\* The titles of the mentions of a list, and of the items of an answer.
MentionTitles(mentions) == [k \in 1..Len(mentions) |-> mentions[k].text[1]]

ItemTitles(answer) == [k \in 1..Len(answer.items) |-> answer.items[k].title]

\* C14, as claimed: when the first origin of the news helper raises, at
\* whatever point, and the second returns 3 items, the result is those 3
\* items and nothing else; and the second origin is asked only when the
\* first raised or gave no result.
C14_FailoverIsSecondaryOnly ==
  fetched.helper = "News" =>
    /\ fetched.result.failover =>
         Threw(fetched.primary) \/ Tried("News", fetched.primary).mentions = <<>>
    /\ /\ Threw(fetched.primary)
       /\ fetched.gnews_key
       /\ fetched.secondary.ok
       /\ Len(fetched.secondary.items) = 3
       /\ \A i \in 1..3 : fetched.secondary.items[i].kind = "item"
       => MentionTitles(fetched.result.mentions) = ItemTitles(fetched.secondary)

----------------------------------------------------------------------------
\* C15, as claimed: when anything fails during the fetch of a helper, the
\* helper returns the empty list: no mention built before the failure is
\* returned.
C15_ErrorDropsTheBatch ==
  fetched.helper \in {"Dev.to", "Hacker News", "Reddit"} /\ Threw(fetched.primary)
    => fetched.result.mentions = <<>>

----------------------------------------------------------------------------
\* C16, as claimed: a helper calls the classifier at most once in a fetch,
\* however many items there are, and the i-th mention carries the label of
\* the i-th item kept.
C16_OneClassifierCall ==
  fetched.helper # "" =>
    /\ fetched.result.classifier_calls <= 1
    /\ \A k \in 1..Len(fetched.result.mentions) :
         fetched.result.mentions[k].sentiment
           = sentiment_pipeline(fetched.result.mentions[k].text[1])

----------------------------------------------------------------------------
(* C17: the watch registry                                                 *)

\* str.strip() on the names the model uses: what "trimmed" means for a name.
Strip(w) ==
  CASE w = "Acme " -> "Acme"
    [] w = "acme " -> "acme"
    [] OTHER -> w

\* C17: every element of the watch registry is a normalized entity name,
\* lowercased and trimmed of surrounding whitespace, so that requests whose
\* brand differs only in case or surrounding whitespace leave one entry.
C17_RegistryIsNormalized ==
  /\ \A b \in watched_brands : b = Lower(Strip(b))
  /\ \A b, c \in watched_brands : Lower(Strip(b)) = Lower(Strip(c)) => b = c

----------------------------------------------------------------------------
(* C18: the live poller                                                    *)

\* No item was broadcast more than once.
C18_DeliveredOnce == \A item \in Items : deliveries[item] <= 1

\* No watermark decreases, and a live_mention_update goes to every session
\* connected when it is emitted.
C18_PollStep ==
  /\ \A key \in PollKeys : watermarks'[key] >= watermarks[key]
  /\ live' # live =>
       /\ live'.event.name = "live_mention_update"
       /\ live'.event.mentions # {}
       /\ live'.recipients = {s \in Sids : sessions[s] = "connected"}

\* Every registered entity is taken into a cycle for every source, and every
\* pair taken into a cycle is polled.
C18_PollsEveryEntity ==
  /\ \A entity \in PollEntities :
       (entity \in watched_brands) ~> (PollSources \X {entity} \subseteq pending)
  /\ \A key \in PollKeys : (key \in pending) ~> (key \notin pending)

\* C18: the poller polls every registered entity again and again, the
\* watermark of a (source, entity) never decreases, new mentions are
\* broadcast as live_mention_update to all sessions, and no mention
\* delivered in one cycle is delivered again in a later one.
C18_Poller == []C18_DeliveredOnce /\ [][C18_PollStep]_vars /\ C18_PollsEveryEntity

\* A second cycle delivered the newer item of a pair and nothing else, to
\* both sessions, while the origin still lists the item the first delivered.
C18_Witness ==
  \E key \in PollKeys :
    \E old, new \in {item \in published : <<item.source, item.entity>> = key} :
      /\ old.at < new.at
      /\ deliveries[old] = 1
      /\ live.event.mentions = {new}
      /\ live.recipients = Sids
      /\ watermarks[key] = new.at

----------------------------------------------------------------------------
(* C19: concurrent runs and the shared corpus                              *)

\* The words a run pushes: those of its mentions that survive the filter.
PushedWords(run) == TopicWords(run.current_search_mentions, run.brand_name)

\* The runs in flight that have pushed their words.
HavePushed == {r \in Slots : runs[r].pc \in {"topics", "complete"}}

\* The places of the corpus where the words of a run lie side by side, as
\* the number of words before them.
PlacesOf(run) ==
  {k \in 0..(Len(global_word_corpus) - Len(PushedWords(run))) :
     SubSeq(global_word_corpus, k + 1, k + Len(PushedWords(run))) = PushedWords(run)}

\* Below capacity the words of every run that pushed lie side by side in the
\* corpus, and those of two runs lie apart: no push was lost or overwritten.
C19_PushesKept ==
  Len(global_word_corpus) < CorpusMaxLen =>
    /\ \A r \in HavePushed : PlacesOf(runs[r]) # {}
    /\ \A r, q \in HavePushed : r # q =>
         \E k \in PlacesOf(runs[r]), m \in PlacesOf(runs[q]) :
           \/ k + Len(PushedWords(runs[r])) <= m
           \/ m + Len(PushedWords(runs[q])) <= k

\* A run pushes and reads the ranking in one step, in which no other run
\* moves; and the corpus changes in no other step.
C19_PushStep ==
  LET pushing == {r \in Slots : runs[r].pc = "activity" /\ runs'[r].pc = "topics"}
  IN  /\ global_word_corpus' # global_word_corpus => pushing # {}
      /\ \A r \in pushing :
           /\ \A q \in Slots \ {r} : runs'[q] = runs[q]
           /\ Len(global_word_corpus) + Len(PushedWords(runs[r])) <= CorpusMaxLen =>
                global_word_corpus' = global_word_corpus \o PushedWords(runs[r])
           /\ runs'[r].events[Len(runs'[r].events)].key = "topics"
           /\ runs'[r].events[Len(runs'[r].events)].topics
                = most_common(global_word_corpus', TopN)

\* C19: when runs are interleaved at their awaits, each run's push of its
\* words and the ranking it reads are one atomic step, the words of a run are
\* contiguous in the corpus, and no push is lost or overwritten by another
\* run's push.
C19_CorpusUpdatesSerialized == []C19_PushesKept /\ [][C19_PushStep]_vars

\* Two runs were in flight together and both pushed words, the run started
\* second before the run started first.
C19_Witness ==
  \E r, q \in HavePushed :
    /\ runs[r].id < runs[q].id
    /\ PushedWords(runs[r]) # <<>>
    /\ PushedWords(runs[q]) # <<>>
    /\ PushedWords(runs[r]) # PushedWords(runs[q])
    /\ global_word_corpus = PushedWords(runs[q]) \o PushedWords(runs[r])

----------------------------------------------------------------------------
\* C20, as claimed: whatever the list of mentions, each of the three
\* percentages of analyze_mention_summary lies in 0..100; NEUTRAL, the
\* remainder after rounding POSITIVE and NEGATIVE, is never negative.
C20_PercentagesInRange ==
  /\ summary.POSITIVE \in 0..100
  /\ summary.NEGATIVE \in 0..100
  /\ summary.NEUTRAL \in 0..100

====
